---- MODULE Spec2Model ----
(***************************************************************************)
(* A model of the MusicPlayer class of hello.py: the playlist, the current *)
(* track index, the playback session and the 1-second poll, driven by the  *)
(* Tk callbacks.  The player object is the record st; every callback is a  *)
(* function from the record before the event to the record after it, named *)
(* after the method it models.  pygame.mixer.music is modelled by the      *)
(* record st.music and the operators music_*.  A property of a callback is *)
(* stated on the record it returns, for every reachable record it can be   *)
(* called on and every outcome of the calls it makes.                      *)
(***************************************************************************)
EXTENDS Integers, Sequences, FiniteSets, TLC

VARIABLE st

vars == << st >>

(* ------------------------------ bounds -------------------------------- *)

\* seconds of playback the engine position is followed for
MaxPos == 1
\* pending root.after(1000, check_track_end) callbacks that are followed
MaxTimers == 2

(* ------------------------- the files on disk -------------------------- *)

NoTrack == "<none>"

\* the positions (seconds) the scrubber is released at
SeekPositions == {0, 30}

\* the files of the directory tree the user can pick from: root and file as
\* os.walk yields them, Path(file).suffix and os.path.join(root, file)
FileA     == [root |-> "/m",   file |-> "a.mp3",     suffix |-> ".mp3", path |-> "/m/a.mp3"]
FileNotes == [root |-> "/m",   file |-> "notes.txt", suffix |-> ".txt", path |-> "/m/notes.txt"]
FileB     == [root |-> "/m/s", file |-> "b.MP3",     suffix |-> ".MP3", path |-> "/m/s/b.MP3"]
FileApple == [root |-> "/n",   file |-> "apple.ogg", suffix |-> ".ogg", path |-> "/n/apple.ogg"]

\* what askdirectory returns: "" is the cancelled dialog
Directories == {"", "/m", "/n"}

\* os.walk(directory): the files below it, top-down
Walk(directory) ==
    CASE directory = "/m"   -> << FileA, FileNotes, FileB >>
      [] directory = "/n"   -> << FileApple >>
      [] OTHER              -> << >>

\* str.lower() on the strings that occur
Lower(s) ==
    CASE s = ".MP3"           -> ".mp3"
      [] s = "Zebra"          -> "zebra"
      [] s = "Apple"          -> "apple"
      [] s = "Beta"           -> "beta"
      [] s = "Two"            -> "two"
      [] s = "Unknown Artist" -> "unknown artist"
      [] s = "Unknown Album"  -> "unknown album"
      [] OTHER                -> s

\* the order of Python's str comparison on the lower-case strings that occur
Rank(s) ==
    CASE s = "alpha"          -> 0
      [] s = "apple"          -> 1
      [] s = "beta"           -> 2
      [] s = "one"            -> 3
      [] s = "two"            -> 4
      [] s = "unknown album"  -> 5
      [] s = "unknown artist" -> 6
      [] s = "zebra"          -> 7
      [] OTHER                -> 8

audio_extensions == {".mp3", ".wav", ".ogg", ".flac", ".m4a", ".aac", ".wma"}

\* what get_track_info reads from the file: the tags, or the file name stem
\* and the "Unknown" defaults where there are none
ReadTags(file_path) ==
    CASE file_path = "/m/a.mp3"   -> [title |-> "Zebra", artist |-> "Beta",  album |-> "one"]
      [] file_path = "/m/s/b.MP3" -> [title |-> "Apple", artist |-> "alpha", album |-> "Two"]
      [] file_path = "/n/apple.ogg" ->
             [title |-> "apple", artist |-> "Unknown Artist", album |-> "Unknown Album"]
      [] OTHER -> [title |-> file_path, artist |-> "Unknown Artist", album |-> "Unknown Album"]

DefaultLength == 100
NoLength == -1

\* pygame.mixer.Sound(track).get_length(), or the default when Sound raises
SoundLength(track) ==
    CASE track = "/m/a.mp3"   -> 180
      [] track = "/m/s/b.MP3" -> 3
      [] OTHER                -> DefaultLength

(* ------------------------ pygame.mixer.music -------------------------- *)
\* state: "stopped", "playing" or "paused"; loaded: the music in the mixer;
\* pos: whole seconds played since the last play()

music_init == [state |-> "stopped", loaded |-> NoTrack, pos |-> 0]

music_load(m, track) == [state |-> "stopped", loaded |-> track, pos |-> 0]

music_play(m) == [m EXCEPT !.state = "playing", !.pos = 0]

music_stop(m) == [m EXCEPT !.state = "stopped", !.pos = 0]

music_pause(m) == IF m.state = "playing" THEN [m EXCEPT !.state = "paused"] ELSE m

music_unpause(m) == IF m.state = "paused" THEN [m EXCEPT !.state = "playing"] ELSE m

\* get_busy() is False while the music is paused (pygame 2)
get_busy(m) == m.state = "playing"

\* get_pos() in milliseconds; -1 when no music has been started
get_pos(m) == IF m.state = "stopped" THEN -1 ELSE m.pos * 1000

(* --------------------------- the player ------------------------------- *)

\* the empty dict
EmptyCache == [p \in {} |-> ReadTags(p)]

init_variables ==
    [ playlist            |-> << >>,
      current_track_index |-> -1,
      track_metadata      |-> EmptyCache,
      is_paused           |-> FALSE,
      shuffle_mode        |-> FALSE,
      is_seeking          |-> FALSE,
      seek_offset         |-> 0,
      track_length        |-> NoLength,
      sort_dropdown       |-> "Name",
      playlist_box        |-> 0,
      current_time        |-> 0,
      music               |-> music_init,
      timers              |-> 0 ]

\* root.after(1000, self.check_track_end)
after(s) == [s EXCEPT !.timers = @ + 1]

InPlaylist(file_path, playlist) == \E i \in 1..Len(playlist) : playlist[i] = file_path

\* 0-based list.index
IndexOf(playlist, track) ==
    IF InPlaylist(track, playlist)
    THEN (CHOOSE i \in 1..Len(playlist) :
              /\ playlist[i] = track
              /\ \A j \in 1..(i-1) : playlist[j] # track) - 1
    ELSE -1

stop_music(s) == [s EXCEPT !.music = music_stop(@), !.is_paused = FALSE]

\* a pause that does not ask the engine whether it is playing
PauseAlways(s) == [s EXCEPT !.music = music_pause(@), !.is_paused = TRUE]

pause_music(s) ==
    IF get_busy(s.music)
    THEN [s EXCEPT !.music = music_pause(@), !.is_paused = TRUE]
    ELSE s

\* a start that keeps the seek offset of the track before
StartTrackKeepsOffset(s, ok) ==
    LET idx   == IF s.current_track_index = -1 THEN 0 ELSE s.current_track_index
        track == s.playlist[idx + 1]
        s1    == [s EXCEPT !.current_track_index = idx]
    IN  IF ~ok
        THEN s1
        ELSE after([s1 EXCEPT !.music = music_play(music_load(@, track)),
                              !.track_length = SoundLength(track)])

\* the else branch of play_music, lines 604-628; ok is whether
\* pygame.mixer.music.load/play return or raise pygame.error
StartTrack(s, ok) ==
    LET idx   == IF s.current_track_index = -1 THEN 0 ELSE s.current_track_index
        track == s.playlist[idx + 1]
        s1    == [s EXCEPT !.current_track_index = idx]
    IN  IF ~ok
        THEN s1
        ELSE after([s1 EXCEPT !.music = music_play(music_load(@, track)),
                              !.seek_offset = 0,
                              !.track_length = SoundLength(track)])

play_music(s, ok) ==
    IF Len(s.playlist) = 0
    THEN s
    ELSE IF s.is_paused
         THEN after([s EXCEPT !.music = music_unpause(@), !.is_paused = FALSE])
         ELSE StartTrack(s, ok)

(* ------------------------------ sorting ------------------------------- *)

\* get_track_info: the cached entry, or the tags read from the file
get_track_info(cache, file_path) ==
    IF file_path \in DOMAIN cache THEN cache[file_path] ELSE ReadTags(file_path)

\* the cache after get_track_info was called on every track of the playlist
CacheAfterSort(cache, playlist) ==
    [p \in (DOMAIN cache) \cup {playlist[i] : i \in 1..Len(playlist)} |->
        get_track_info(cache, p)]

\* the key= lambda of the three sorts
SortKey(info, sort_by) ==
    CASE sort_by = "Name"   -> << Rank(Lower(info.title)) >>
      [] sort_by = "Artist" -> << Rank(Lower(info.artist)), Rank(Lower(info.title)) >>
      [] sort_by = "Album"  -> << Rank(Lower(info.album)), Rank(Lower(info.title)) >>

\* Python's tuple comparison a < b, on keys of the same length
KeyLess(a, b) ==
    \E i \in 1..Len(a) :
        /\ a[i] < b[i]
        /\ \A j \in 1..(i-1) : a[j] = b[j]

\* list.sort(key=...): stable, ascending
RECURSIVE ListSort(_, _, _)
ListSort(playlist, cache, sort_by) ==
    IF Len(playlist) = 0
    THEN << >>
    ELSE LET n     == Len(playlist)
             x     == playlist[n]
             front == ListSort(SubSeq(playlist, 1, n - 1), cache, sort_by)
             kx    == SortKey(get_track_info(cache, x), sort_by)
             \* x goes before the first element whose key is greater than its own
             after_x == {i \in 1..Len(front) :
                            KeyLess(kx, SortKey(get_track_info(cache, front[i]), sort_by))}
             at    == IF after_x = {} THEN Len(front) + 1
                      ELSE CHOOSE i \in after_x : \A j \in after_x : i <= j
         IN  SubSeq(front, 1, at - 1) \o << x >> \o SubSeq(front, at, Len(front))

\* a sort that leaves the index where it was
RemapIndexStale(sorted, current_track, old_index) == old_index

\* lines 558-563: the index of current_track in the sorted list
RemapIndex(sorted, current_track, old_index) ==
    IF current_track # NoTrack THEN IndexOf(sorted, current_track) ELSE old_index

\* update_playlist_display: one row per track
update_playlist_display(s) == [s EXCEPT !.playlist_box = Len(s.playlist)]

sort_playlist(s) ==
    IF Len(s.playlist) = 0
    THEN s
    ELSE LET i      == s.current_track_index
             current_track ==
                 IF i >= 0 /\ i < Len(s.playlist) THEN s.playlist[i + 1] ELSE NoTrack
             sorted == ListSort(s.playlist, s.track_metadata, s.sort_dropdown)
         IN  update_playlist_display(
                 [s EXCEPT !.playlist = sorted,
                           !.track_metadata = CacheAfterSort(@, s.playlist),
                           !.current_track_index = RemapIndex(sorted, current_track, i)])

(* ------------------------------ scanning ------------------------------ *)

\* a scan without the "not in self.playlist" test
RECURSIVE ScanAppendAll(_, _)
ScanAppendAll(playlist, walk) ==
    IF Len(walk) = 0
    THEN playlist
    ELSE LET f == Head(walk)
         IN  IF Lower(f.suffix) \in audio_extensions
             THEN ScanAppendAll(Append(playlist, f.path), Tail(walk))
             ELSE ScanAppendAll(playlist, Tail(walk))

\* the loop of lines 523-529 over the files os.walk yields
RECURSIVE ScanAppend(_, _)
ScanAppend(playlist, walk) ==
    IF Len(walk) = 0
    THEN playlist
    ELSE LET f == Head(walk)
         IN  IF Lower(f.suffix) \in audio_extensions /\ ~InPlaylist(f.path, playlist)
             THEN ScanAppend(Append(playlist, f.path), Tail(walk))
             ELSE ScanAppend(playlist, Tail(walk))

scan_directory(s, directory) ==
    IF directory = ""
    THEN s
    ELSE LET s1 == [s EXCEPT !.playlist = ScanAppend(@, Walk(directory))]
         IN  IF Len(s1.playlist) > 0 THEN sort_playlist(s1) ELSE s1

\* files_found of the scan
files_found(s, directory) ==
    IF directory = "" THEN 0
    ELSE Len(ScanAppend(s.playlist, Walk(directory))) - Len(s.playlist)

\* a clear that forgets to reset the index
ClearKeepsIndex(s) ==
    [stop_music(s) EXCEPT !.playlist = << >>,
                          !.track_metadata = EmptyCache,
                          !.playlist_box = 0]

\* a clear that does not stop the playback
ClearNoStop(s) ==
    [s EXCEPT !.playlist = << >>,
              !.track_metadata = EmptyCache,
              !.playlist_box = 0,
              !.current_track_index = -1]

clear_playlist(s) ==
    [stop_music(s) EXCEPT !.playlist = << >>,
                          !.track_metadata = EmptyCache,
                          !.playlist_box = 0,
                          !.current_track_index = -1]

(* ----------------------------- navigation ----------------------------- *)

toggle_shuffle(s) == [s EXCEPT !.shuffle_mode = ~@]

\* a next that stays on the last track instead of wrapping
NextIndexClamp(i, n) == IF i + 1 < n THEN i + 1 ELSE n - 1

\* line 668
NextIndex(i, n) == (i + 1) % n

\* a previous that stays on the first track instead of wrapping
PreviousIndexClamp(i, n) == IF i > 0 THEN i - 1 ELSE 0

\* line 679
PreviousIndex(i, n) == (i - 1) % n

\* r is the value random.randint(0, len - 1) returns
next_track(s, r, ok) ==
    IF Len(s.playlist) = 0
    THEN s
    ELSE LET i == IF s.shuffle_mode THEN r
                  ELSE NextIndex(s.current_track_index, Len(s.playlist))
         IN  play_music(stop_music([s EXCEPT !.current_track_index = i]), ok)

previous_track(s, ok) ==
    IF Len(s.playlist) = 0
    THEN s
    ELSE play_music(stop_music(
             [s EXCEPT !.current_track_index = PreviousIndex(@, Len(s.playlist))]), ok)

\* selection is playlist_box.curselection(): empty, or the row double-clicked
play_selected_track(s, selection, ok) ==
    IF Len(selection) = 0
    THEN s
    ELSE play_music(stop_music([s EXCEPT !.current_track_index = selection[1]]), ok)

(* ------------------------------ seeking ------------------------------- *)

start_seek(s) == [s EXCEPT !.is_seeking = TRUE]

\* an end_seek that stores the offset before it tests for a current track
EndSeekOffsetFirst(s, seek_position, ok) ==
    IF Len(s.playlist) = 0 \/ s.current_track_index = -1
    THEN [s EXCEPT !.seek_offset = seek_position, !.is_seeking = FALSE]
    ELSE LET was_paused == s.is_paused
             track == s.playlist[s.current_track_index + 1]
             s1 == [s EXCEPT !.seek_offset = seek_position, !.music = music_stop(@)]
             s2 == [s1 EXCEPT !.music = music_play(music_load(@, track))]
             s3 == IF was_paused THEN [s2 EXCEPT !.music = music_pause(@)] ELSE s2
         IN  IF ~ok THEN s1 ELSE [s3 EXCEPT !.is_seeking = FALSE]

\* seek_position is time_scrubber.get() at the release; ok is whether
\* the reload (load, play(start=...)) returns or raises pygame.error
end_seek(s, seek_position, ok) ==
    IF Len(s.playlist) = 0 \/ s.current_track_index = -1
    THEN [s EXCEPT !.is_seeking = FALSE]
    ELSE LET was_paused == s.is_paused
             track == s.playlist[s.current_track_index + 1]
             s1 == [s EXCEPT !.seek_offset = seek_position, !.music = music_stop(@)]
             s2 == [s1 EXCEPT !.music = music_play(music_load(@, track))]
             s3 == IF was_paused THEN [s2 EXCEPT !.music = music_pause(@)] ELSE s2
         IN  IF ~ok THEN s1 ELSE [s3 EXCEPT !.is_seeking = FALSE]

(* ------------------------------ the poll ------------------------------ *)

\* current_pos of line 735, in milliseconds
CurrentPos(s) == get_pos(s.music) + s.seek_offset * 1000

\* one firing of a pending root.after callback
check_track_end(s, r, ok) ==
    LET s0 == [s EXCEPT !.timers = @ - 1]
    IN  IF get_busy(s0.music) \/ s0.is_paused
        THEN LET s1 == IF ~s0.is_seeking /\ s0.track_length # NoLength
                       THEN [s0 EXCEPT !.current_time = CurrentPos(s0)]
                       ELSE s0
             IN  after(s1)
        ELSE IF Len(s0.playlist) > 0 /\ s0.current_track_index # -1
             THEN next_track(s0, r, ok)
             ELSE [s0 EXCEPT !.current_time = 0]

(* --------------------------- the engine's time ------------------------ *)

\* a second of playback passes
music_tick(m) == [m EXCEPT !.pos = @ + 1]

\* the music reaches its end: the mixer halts it
music_end(m) == music_stop(m)

(* ------------------------------ actions ------------------------------- *)

CurrentTrack(s) ==
    IF s.current_track_index >= 0 /\ s.current_track_index < Len(s.playlist)
    THEN s.playlist[s.current_track_index + 1]
    ELSE NoTrack

\* whether the handler reaches pygame.mixer.music.load
PlayLoads(s) == Len(s.playlist) > 0 /\ ~s.is_paused
NavLoads(s)  == Len(s.playlist) > 0
SeekLoads(s) == Len(s.playlist) > 0 /\ s.current_track_index # -1
PollAdvances(s) ==
    /\ ~(get_busy(s.music) \/ s.is_paused)
    /\ Len(s.playlist) > 0
    /\ s.current_track_index # -1

\* the outcomes of the engine's load and play: TRUE returns, FALSE raises;
\* only TRUE where the handler does not reach them
Outcomes(loads) == IF loads THEN BOOLEAN ELSE {TRUE}

\* the values random.randint(0, len - 1) can return, where it is called
RandomChoices(s) ==
    IF s.shuffle_mode /\ Len(s.playlist) > 0 THEN 0..(Len(s.playlist) - 1) ELSE {0}

\* the rows a double click can select: none on the empty listbox
Selections(s) ==
    IF s.playlist_box = 0 THEN {<< >>}
    ELSE {<< row >> : row \in 0..(s.playlist_box - 1)}

SortKeys == {"Name", "Artist", "Album"}

\* <<ComboboxSelected>>: the dropdown shows sort_by when sort_playlist runs
select_sort(s, sort_by) == sort_playlist([s EXCEPT !.sort_dropdown = sort_by])

Init == st = init_variables

Scan == \E directory \in Directories : st' = scan_directory(st, directory)

Sort == \E sort_by \in SortKeys : st' = select_sort(st, sort_by)

Clear == st' = clear_playlist(st)

Play ==
    /\ st.timers < MaxTimers
    /\ \E ok \in Outcomes(PlayLoads(st)) : st' = play_music(st, ok)

Pause == st' = pause_music(st)

Stop == st' = stop_music(st)

ToggleShuffle == st' = toggle_shuffle(st)

NextTrack ==
    /\ st.timers < MaxTimers
    /\ \E ok \in Outcomes(NavLoads(st)), r \in RandomChoices(st) :
           st' = next_track(st, r, ok)

PreviousTrack ==
    /\ st.timers < MaxTimers
    /\ \E ok \in Outcomes(NavLoads(st)) : st' = previous_track(st, ok)

Select ==
    /\ st.timers < MaxTimers
    /\ \E selection \in Selections(st) :
           \E ok \in Outcomes(Len(selection) > 0) :
               st' = play_selected_track(st, selection, ok)

StartSeek ==
    /\ ~st.is_seeking
    /\ st' = start_seek(st)

\* the release that follows a press on the scrubber
EndSeek ==
    /\ st.is_seeking
    /\ \E seek_position \in SeekPositions, ok \in Outcomes(SeekLoads(st)) :
           st' = end_seek(st, seek_position, ok)

\* a pending check_track_end callback fires
Poll ==
    /\ st.timers > 0
    /\ \E ok \in Outcomes(PollAdvances(st)),
          r \in (IF PollAdvances(st) THEN RandomChoices(st) ELSE {0}) :
           st' = check_track_end(st, r, ok)

\* a second of playback passes
Tick ==
    /\ get_busy(st.music)
    /\ st.music.pos < MaxPos
    /\ st' = [st EXCEPT !.music = music_tick(@)]

\* the track reaches its end
TrackEnds ==
    /\ get_busy(st.music)
    /\ st' = [st EXCEPT !.music = music_end(@)]

Next ==
    \/ Scan
    \/ Sort
    \/ Clear
    \/ Play
    \/ Pause
    \/ Stop
    \/ ToggleShuffle
    \/ NextTrack
    \/ PreviousTrack
    \/ Select
    \/ StartSeek
    \/ EndSeek
    \/ Poll
    \/ Tick
    \/ TrackEnds

Spec == Init /\ [][Next]_vars

(* ------------------------------ properties ---------------------------- *)

Range(seq) == {seq[i] : i \in 1..Len(seq)}

NoDuplicates(seq) == \A i, j \in 1..Len(seq) : seq[i] = seq[j] => i = j

ValidIndex(s) ==
    s.current_track_index >= 0 /\ s.current_track_index < Len(s.playlist)

\* the audio files of the disk, by the extension list of the scan
AudioPaths == {"/m/a.mp3", "/m/s/b.MP3", "/n/apple.ogg"}

\* C1: in every reachable state the current track index is the sentinel -1
\* or an index of the playlist, 0 <= index < length.
C1_IndexInRange ==
    st.current_track_index = -1 \/ ValidIndex(st)

\* the last of three tracks is current and playing
C1_Witness ==
    /\ Len(st.playlist) = 3
    /\ st.current_track_index = 2
    /\ st.music.state = "playing"

\* C2: sorting by Name, Artist or Album keeps the current track: a valid
\* index points after the sort at the path it pointed at before, and the
\* sentinel stays the sentinel.
C2_SortKeepsCurrentTrack ==
    \A sort_by \in SortKeys :
        LET s2 == select_sort(st, sort_by)
        IN  /\ ValidIndex(st) =>
                /\ ValidIndex(s2)
                /\ s2.playlist[s2.current_track_index + 1]
                       = st.playlist[st.current_track_index + 1]
            /\ st.current_track_index = -1 => s2.current_track_index = -1

\* the playlist is [A, B] with title(A) = "Zebra", title(B) = "Apple" and A
\* current; sorting by Name gives [B, A] with index 1
C2_Witness ==
    /\ st.playlist = << "/m/a.mp3", "/m/s/b.MP3" >>
    /\ st.current_track_index = 0
    /\ select_sort(st, "Name").playlist = << "/m/s/b.MP3", "/m/a.mp3" >>
    /\ select_sort(st, "Name").current_track_index = 1

\* C3: the playlist never holds a path twice; a scan keeps every entry,
\* adds only audio files that were not in the playlist, and a second scan of
\* the same directory adds none.
C3_ScanNoDuplicates ==
    /\ NoDuplicates(st.playlist)
    /\ Range(st.playlist) \subseteq AudioPaths
    /\ \A directory \in Directories :
        LET s2 == scan_directory(st, directory)
        IN  /\ Range(st.playlist) \subseteq Range(s2.playlist)
            /\ Len(s2.playlist) = Len(st.playlist) + files_found(st, directory)
            /\ Cardinality(Range(s2.playlist) \ Range(st.playlist))
                   = files_found(st, directory)
            /\ files_found(s2, directory) = 0

\* "/m" was scanned, "/n" was not: scanning "/m" again adds nothing,
\* scanning "/n" adds its one file
C3_Witness ==
    /\ Range(st.playlist) = {"/m/a.mp3", "/m/s/b.MP3"}
    /\ files_found(st, "/m") = 0
    /\ files_found(st, "/n") = 1
    /\ Len(scan_directory(st, "/n").playlist) = 3

\* C4: clear_playlist, called in any state, leaves an empty playlist, the
\* sentinel index, an empty metadata cache, the engine stopped and the
\* paused flag false.
C4_ClearResets ==
    LET s2 == clear_playlist(st)
    IN  /\ s2.playlist = << >>
        /\ s2.current_track_index = -1
        /\ DOMAIN s2.track_metadata = {}
        /\ s2.music.state = "stopped"
        /\ ~s2.is_paused

\* clear is called while a track of three is paused and the scrubber is held
C4_Witness ==
    /\ Len(st.playlist) = 3
    /\ DOMAIN st.track_metadata # {}
    /\ st.is_paused
    /\ st.music.state = "paused"
    /\ st.is_seeking
    /\ ValidIndex(st)

\* the players that k calls of next_track in a row can leave, whatever the
\* engine does at each load
RECURSIVE NextTimes(_, _)
NextTimes(S, k) ==
    IF k = 0 THEN S
    ELSE NextTimes({next_track(s, 0, ok) : s \in S, ok \in BOOLEAN}, k - 1)

Sequential(s) == Len(s.playlist) > 0 /\ ~s.shuffle_mode

NextStepsByOne ==
    \A ok \in BOOLEAN :
        next_track(st, 0, ok).current_track_index
            = (st.current_track_index + 1) % Len(st.playlist)

\* C5 as claimed: with shuffle off and a non-empty playlist each next() sets
\* the index to (current + 1) mod length, and length calls of next() return
\* to the original current index, whatever it was.
C5_Original ==
    Sequential(st) =>
        /\ NextStepsByOne
        /\ \A s \in NextTimes({st}, Len(st.playlist)) :
               s.current_track_index = st.current_track_index

\* C5 as amended: with shuffle off and a non-empty playlist each next() sets
\* the index to (current + 1) mod length; length calls of next() return to
\* the original index when it is an index of the playlist; from the sentinel
\* the first next() selects index 0 and length calls end on index length-1.
C5_NextCycles ==
    Sequential(st) =>
        /\ NextStepsByOne
        /\ \A s \in NextTimes({st}, Len(st.playlist)) :
               s.current_track_index =
                   IF ValidIndex(st) THEN st.current_track_index
                   ELSE Len(st.playlist) - 1

\* [A, B, C] with index 0: next() goes to 1, to 2 and back to 0
C5_Witness ==
    /\ Sequential(st)
    /\ Len(st.playlist) = 3
    /\ st.current_track_index = 0
    /\ \A s \in NextTimes({st}, 1) : s.current_track_index = 1
    /\ \A s \in NextTimes({st}, 2) : s.current_track_index = 2
    /\ \A s \in NextTimes({st}, 3) : s.current_track_index = 0

PreviousWraps ==
    st.current_track_index = 0 =>
        \A ok \in BOOLEAN :
            previous_track(st, ok).current_track_index = Len(st.playlist) - 1

\* C6 as claimed: for every non-empty playlist in non-shuffle mode next()
\* followed by previous() leaves the current index i as it was, and
\* previous() wraps from index 0 to length-1.
C6_Original ==
    Sequential(st) =>
        /\ \A ok1, ok2 \in BOOLEAN :
               previous_track(next_track(st, 0, ok1), ok2).current_track_index
                   = st.current_track_index
        /\ PreviousWraps

\* C6 as amended: for every non-empty playlist in non-shuffle mode next()
\* followed by previous() from an index i of the playlist (0 <= i < length)
\* leaves the current index equal to i, and previous() wraps from index 0 to
\* length-1; from the sentinel, next() then previous() ends on length-1.
C6_PreviousInvertsNext ==
    Sequential(st) =>
        /\ \A ok1, ok2 \in BOOLEAN :
               previous_track(next_track(st, 0, ok1), ok2).current_track_index
                   = IF ValidIndex(st) THEN st.current_track_index
                     ELSE Len(st.playlist) - 1
        /\ PreviousWraps

\* the last of three tracks is current: next() wraps to 0 and previous()
\* wraps back to 2
C6_Witness ==
    /\ Sequential(st)
    /\ Len(st.playlist) = 3
    /\ st.current_track_index = 2
    /\ next_track(st, 0, TRUE).current_track_index = 0
    /\ previous_track(next_track(st, 0, TRUE), TRUE).current_track_index = 2

SessionUntouched(s, s2) ==
    /\ s2.playlist = << >>
    /\ s.current_track_index = -1
    /\ s2.current_track_index = -1
    /\ s2.is_paused = s.is_paused
    /\ s2.seek_offset = s.seek_offset
    /\ s2.music = s.music
    /\ s2.timers = s.timers

\* C7: with an empty playlist play, next, previous, sort and the release of
\* the scrubber leave the index at the sentinel, the paused flag and the seek
\* offset as they were, load nothing into the engine and arm no poll.
C7_EmptyPlaylistNoOps ==
    Len(st.playlist) = 0 =>
        /\ \A ok \in BOOLEAN :
            /\ SessionUntouched(st, play_music(st, ok))
            /\ SessionUntouched(st, next_track(st, 0, ok))
            /\ SessionUntouched(st, previous_track(st, ok))
            /\ \A seek_position \in SeekPositions :
                   SessionUntouched(st, end_seek(st, seek_position, ok))
        /\ \A sort_by \in SortKeys : SessionUntouched(st, select_sort(st, sort_by))

\* the playlist was cleared while a poll was pending and the scrubber held,
\* after a seek to 30
C7_Witness ==
    /\ Len(st.playlist) = 0
    /\ st.timers > 0
    /\ st.is_seeking
    /\ st.seek_offset = 30
    /\ st.music.loaded # NoTrack
    /\ end_seek(st, 0, TRUE).seek_offset = 30

SessionReset(s2) ==
    /\ s2.seek_offset = 0
    /\ ~s2.is_paused
    /\ s2.music = [state |-> "playing", loaded |-> CurrentTrack(s2), pos |-> 0]

\* C8: whenever play (not paused), next, previous, a double click or the
\* poll's auto-advance loads and starts a track, the seek offset is 0 and the
\* paused flag false right after, whatever they were before.
C8_StartResetsSession ==
    /\ PlayLoads(st) => SessionReset(play_music(st, TRUE))
    /\ NavLoads(st) =>
        /\ \A r \in RandomChoices(st) : SessionReset(next_track(st, r, TRUE))
        /\ SessionReset(previous_track(st, TRUE))
    /\ \A selection \in Selections(st) :
           Len(selection) > 0 => SessionReset(play_selected_track(st, selection, TRUE))
    /\ (st.timers > 0 /\ PollAdvances(st)) =>
           \A r \in RandomChoices(st) : SessionReset(check_track_end(st, r, TRUE))

\* next() from Paused after a seek to 30 starts another track
C8_Witness ==
    /\ st.is_paused
    /\ st.music.state = "paused"
    /\ st.seek_offset = 30
    /\ Len(st.playlist) >= 2
    /\ next_track(st, 0, TRUE).music.loaded # st.music.loaded
    /\ next_track(st, 0, TRUE).music.state = "playing"
    /\ next_track(st, 0, TRUE).seek_offset = 0

Playing(s) == get_busy(s.music) /\ ~s.is_paused

Paused(s) == s.is_paused /\ s.music.state = "paused"

\* the poll tick that follows on s, when one is pending
ShownByNextPoll(s) == check_track_end(s, 0, TRUE).current_time

SeekKeepsState(s, s2, seek_position) ==
    /\ s2.current_track_index = s.current_track_index
    /\ s2.seek_offset = seek_position
    /\ s2.is_paused = s.is_paused
    /\ s2.music.state = s.music.state
    /\ s2.timers > 0 =>
           ShownByNextPoll(s2) = seek_position * 1000 + get_pos(s2.music)

\* C9 as claimed: a seek from Playing or Paused keeps the state and the
\* current index and sets the seek offset to the position; paused stays
\* paused, and the next poll tick shows the position plus the elapsed time
\* the engine reports.
C9_Original ==
    (st.is_seeking /\ (Playing(st) \/ Paused(st))) =>
        \A seek_position \in SeekPositions, ok \in Outcomes(SeekLoads(st)) :
            SeekKeepsState(st, end_seek(st, seek_position, ok), seek_position)

\* C10: play() while paused resumes the engine without a reload: the paused
\* flag becomes false, the index, the loaded track, its position, the seek
\* offset and the cached length stay; pause() sets the paused flag only when
\* the engine reports playback and changes nothing otherwise.
C10_ResumeAndPause ==
    /\ st.is_paused =>
        \A ok \in BOOLEAN :
            LET s2 == play_music(st, ok)
            IN  /\ ~s2.is_paused
                /\ s2.current_track_index = st.current_track_index
                /\ s2.music.loaded = st.music.loaded
                /\ s2.music.pos = st.music.pos
                /\ s2.seek_offset = st.seek_offset
                /\ s2.track_length = st.track_length
                /\ st.music.state = "paused" => s2.music.state = "playing"
    /\ LET s2 == pause_music(st)
       IN  IF st.music.state = "playing"
           THEN s2 = [st EXCEPT !.is_paused = TRUE, !.music.state = "paused"]
           ELSE s2 = st

\* a track paused one second after a seek to 30
C10_Witness ==
    /\ st.is_paused
    /\ st.music.state = "paused"
    /\ st.music.pos = 1
    /\ st.seek_offset = 30
    /\ play_music(st, TRUE).music.state = "playing"

\* Stopped: the engine is not playing, the paused flag is false and the
\* current index is an index of the playlist
Stopped(s) ==
    /\ s.music.state # "playing"
    /\ ~s.is_paused
    /\ ValidIndex(s)

\* the operations that follow still act: play starts the current track when
\* the engine loads it, stop and clear leave the engine halted
StillOperable(s) ==
    /\ play_music(s, TRUE).music.state = "playing"
    /\ stop_music(s).music.state = "stopped"
    /\ Len(clear_playlist(s).playlist) = 0

LeftStopped(s) == Stopped(s) /\ StillOperable(s)

\* C11 as claimed: when the engine raises on the load or the start of a track
\* inside play(), called directly or through next, previous, select or the
\* poll's auto-advance, the controller is left Stopped (engine not playing,
\* paused flag false, index valid) and the later operations still act.
C11_Original ==
    /\ PlayLoads(st) => LeftStopped(play_music(st, FALSE))
    /\ NavLoads(st) =>
           /\ \A r \in RandomChoices(st) : LeftStopped(next_track(st, r, FALSE))
           /\ LeftStopped(previous_track(st, FALSE))
    /\ \A selection \in Selections(st) :
           Len(selection) > 0 =>
               LeftStopped(play_selected_track(st, selection, FALSE))
    /\ (st.timers > 0 /\ PollAdvances(st)) =>
           \A r \in RandomChoices(st) : LeftStopped(check_track_end(st, r, FALSE))

\* C12 as claimed: after stop() has put the controller in Stopped with a
\* non-empty playlist and a current index set, a poll tick that fires later
\* neither changes the current index nor starts playback: the controller
\* stays Stopped.
C12_Original ==
    ValidIndex(st) =>
        LET s1 == stop_music(st)
        IN  s1.timers > 0 =>
                \A r \in RandomChoices(s1), ok \in Outcomes(PollAdvances(s1)) :
                    LET s2 == check_track_end(s1, r, ok)
                    IN  /\ s2.current_track_index = s1.current_track_index
                        /\ Stopped(s2)

\* C13 as claimed: at most one check_track_end callback is pending at any
\* time: after any sequence of play, pause, resume, stop, next, previous,
\* select, seek and poll ticks the number of scheduled poll timers is 0 or 1.
C13_Original == st.timers \in {0, 1}

\* the track the poll's next_track() starts from s: (current + 1) mod length
\* without shuffle, the random index r with shuffle
AdvanceIndex(s, r) ==
    IF s.shuffle_mode THEN r ELSE NextIndex(s.current_track_index, Len(s.playlist))

\* s2 is s after the auto-advance: the next track is playing and a poll is
\* armed again
AutoAdvanced(s, s2, r) ==
    /\ s2.current_track_index = AdvanceIndex(s, r)
    /\ s2.current_track_index \in 0..(Len(s.playlist) - 1)
    /\ s2.music.state = "playing"
    /\ s2.music.loaded = s.playlist[AdvanceIndex(s, r) + 1]
    /\ s2.timers > 0

\* C14 as claimed, in the form a finite run refutes: whenever the engine is
\* playing or paused a poll tick is pending; so when a playing track with a
\* current index set ends naturally, a poll tick is pending, and the tick
\* that fires next starts the next track ((current + 1) mod length, or some
\* index of the playlist with shuffle) and leaves a poll armed.
C14_Original ==
    /\ (get_busy(st.music) \/ st.is_paused) => st.timers > 0
    /\ (Playing(st) /\ ValidIndex(st)) =>
           LET s1 == [st EXCEPT !.music = music_end(@)]
           IN  /\ s1.timers > 0
               /\ \A r \in RandomChoices(s1), ok \in Outcomes(PollAdvances(s1)) :
                      AutoAdvanced(s1, check_track_end(s1, r, ok), r)

\* C15 as claimed: while the user drags the scrubber, a poll tick that finds
\* the engine busy or paused changes neither the displayed position nor the
\* current index and re-arms the poll; the dragging flag is set by the press
\* and is false after every end_seek, whether the playlist is empty, no track
\* is current, or the engine reload succeeds or fails.
C15_Original ==
    /\ (st.is_seeking /\ st.timers > 0 /\ (get_busy(st.music) \/ st.is_paused)) =>
           LET s2 == check_track_end(st, 0, TRUE)
           IN  /\ s2.current_time = st.current_time
               /\ s2.current_track_index = st.current_track_index
               /\ s2.timers = st.timers
    /\ start_seek(st).is_seeking
    /\ st.is_seeking =>
           \A seek_position \in SeekPositions, ok \in Outcomes(SeekLoads(st)) :
               ~end_seek(st, seek_position, ok).is_seeking

====
